---- MODULE Spec2Model ----
(***************************************************************************)
(* The OSCAR server's connection handling: the server's main function      *)
(* (startup, the accept loop, the shutdown goroutine), the per-FLAP        *)
(* handler handleFn and the close handler handleCloseFn, with the session  *)
(* registry, the persisted user status and the presence queue they share.  *)
(* Each connection is a task; a step of a task is one access to shared     *)
(* state, so that the interleavings of the goroutines are explored.        *)
(***************************************************************************)
EXTENDS Integers, Sequences, FiniteSets, TLC

\* ---------------------------------------------------------------- bounds

\* FLAPs the clients send in total, over all connections.
MaxFlaps == 4

\* The clock is followed up to this time.
MaxClock == 3

\* The connections the listener can accept.
Conns == {1, 2}

\* ------------------------------------------------------------- constants

Users == {"alice", "bob"}
NoUser == "none"
NoFlap == [channel |-> 0, data |-> <<>>]
NoEvent == [conn |-> 0, kind |-> "none"]
NoLock == [readers |-> {}, writers |-> {}]
IdleLookup == [pc |-> "idle", name |-> NoUser]

\* The payload of the client's channel-1 hello.
Hello == <<0, 0, 0, 1>>

\* Family ids, by the service registered for them.
FamGeneric == 1
FamLocation == 2
FamBuddy == 3
FamICBM == 4
FamDirectory == 15
FamFeedbag == 19
FamAuth == 23
FamAlert == 24

\* The users table's keys as they appear in a cookie.
UserOfId(id) == IF id = 1 THEN "alice" ELSE IF id = 2 THEN "bob" ELSE NoUser

\* ------------------------------------------------------------------ codec

WriteUint16(v) == <<v \div 256, v % 256>>

ReadUint16(bytes, at) == bytes[at] * 256 + bytes[at + 1]

RECURSIVE WriteFamilies(_)
WriteFamilies(fams) ==
    IF fams = <<>> THEN <<>>
    ELSE WriteUint16(Head(fams)) \o WriteFamilies(Tail(fams))

\* A SNAC on the wire: family, subtype, flags, request id, then the payload.
MarshalSNAC(family, subtype, payload) ==
    WriteUint16(family) \o WriteUint16(subtype) \o <<0, 0>> \o <<0, 0, 0, 0>> \o payload

\* snac.UnmarshalBinary: the 10-byte header must be there.
UnmarshalSNAC(bytes) ==
    IF Len(bytes) < 10
    THEN [ok |-> FALSE, family |-> 0, subtype |-> 0]
    ELSE [ok |-> TRUE, family |-> ReadUint16(bytes, 1), subtype |-> ReadUint16(bytes, 3)]

\* A channel-1 payload bearing the auth cookie in TLV 0x06: the cookie names
\* the user's row and carries its signature check (1 = signed and in time).
CookieData(id, sig) == <<0, 6, 0, 2, id, sig>>

\* services.AuthenticateFLAPCookie: the cookie must be present, signed, in
\* time and name a known user.
AuthenticateFLAPCookie(f) ==
    LET d == f.data IN
    IF Len(d) = 6 /\ ReadUint16(d, 1) = 6 /\ ReadUint16(d, 3) = 2
       /\ d[6] = 1 /\ UserOfId(d[5]) \in Users
    THEN [ok |-> TRUE, user |-> UserOfId(d[5])]
    ELSE [ok |-> FALSE, user |-> NoUser]

\* The FLAPs a client can send.
\* A SNAC of the family, subtype 4, carrying an empty away message (TLV 0x04).
SnacData(family) == MarshalSNAC(family, 4, <<0, 4, 0, 0>>)

ClientFlaps ==
    {[channel |-> 1, data |-> Hello]}
    \cup {[channel |-> 1, data |-> CookieData(id, sig)] :
            <<id, sig>> \in {<<1, 1>>, <<2, 1>>, <<1, 0>>, <<9, 1>>}}
    \cup {[channel |-> 2, data |-> d] :
            d \in {<<0, 2, 0>>, SnacData(FamLocation), SnacData(FamFeedbag)}}
    \cup {[channel |-> ch, data |-> <<>>] : ch \in {3, 4, 5}}

\* ------------------------------------------------------------------ state

VARIABLES
    mainPc,          \* where main is: "reset", "listen", "register", "serve", "exited"
    running,         \* the process is alive
    listener,        \* "none", "open"
    serviceManager,  \* the families registered, in registration order
    metricsServer,   \* "nil", "open", "closed"
    exitPc,          \* the shutdown goroutine: "wait", "queuesClosed", "metricsClosed", "exited"
    commCh,          \* the delivery queue: [q, closed]
    onlineCh,        \* the presence queue: [q, closed]
    sessionManager,  \* the registry: a set of [name, sess]
    status,          \* the persisted status of each user
    pc,              \* each connection task's position
    ctx,             \* the user the connection's context carries
    flap,            \* the FLAP handleFn is processing
    ret,             \* where handleCloseFn returns to: "read" (handleFn's caller) or "exit"
    disconnected,    \* session.Disconnect has closed the socket
    sent,            \* the FLAPs written to the connection
    closeCalls,      \* how often handleCloseFn was invoked for the connection
    closedOnce,      \* a run of handleCloseFn with a user has completed
    lastEvent,       \* what the step just taken completed: [conn, kind]
    flapsLeft,       \* FLAPs the clients may still send
    sessions,        \* main.go: the map from user name to session, a set of [name, sess]
    sessionsMutex,   \* main.go: the tasks that hold sessionsMutex: [readers, writers]
    lookup,          \* main.go: the task calling getSession: [pc, name]
    messages,        \* the rows of the messages table
    clock            \* the time time.Now() returns

vars == <<mainPc, running, listener, serviceManager, metricsServer, exitPc, commCh,
          onlineCh, sessionManager, status, pc, ctx, flap, ret, disconnected, sent,
          closeCalls, closedOnce, lastEvent, flapsLeft, sessions, sessionsMutex, lookup,
          messages, clock>>

\* The state of the server process and of the users table.
serverVars == <<mainPc, running, listener, serviceManager, metricsServer, exitPc, commCh,
                onlineCh, sessionManager, status, pc, ctx, flap, ret, disconnected, sent,
                closeCalls, closedOnce, lastEvent, flapsLeft, sessions, sessionsMutex, lookup>>

\* The messages table and the clock.
messageVars == <<messages, clock>>

procVars == <<mainPc, running, listener, serviceManager, metricsServer, exitPc, commCh>>
legacyVars == <<sessions, sessionsMutex, lookup>>
connVars == <<pc, ctx, flap, ret, disconnected, sent, closeCalls, closedOnce>>

ClosePhases == {"cl_away", "cl_push", "cl_disc", "cl_rm"}

\* -------------------------------------------------------- session manager

\* sessionManager.SetSession: the entry of the name is replaced.
SetSession(reg, name, s) ==
    {e \in reg : e.name # name} \cup {[name |-> name, sess |-> s]}

\* The sessions SetSession closes: those the name was mapped to before.
Evicted(reg, name, s) == {e.sess : e \in {x \in reg : x.name = name /\ x.sess # s}}

\* sessionManager.RemoveSession
RemoveSession(reg, name) == {e \in reg : e.name # name}

\* ---------------------------------------------------------------- startup

\* The registrations main performs, in order.
Registrations == <<FamGeneric, FamLocation, FamBuddy, FamICBM, FamAuth, FamAlert>>

\* services.ServiceVersions: the families the server advertises.
ServiceVersions == <<FamGeneric, FamLocation, FamBuddy, FamICBM, FamAuth, FamAlert>>

\* The process ends (os.Exit, or the panic of a goroutine): its tasks, its
\* sockets and everything it held in memory are gone; what it persisted stays.
Terminate(how) ==
    /\ running' = FALSE
    /\ mainPc' = how
    /\ exitPc' = "exited"
    /\ listener' = "none"
    /\ serviceManager' = <<>>
    /\ metricsServer' = "nil"
    /\ commCh' = [q |-> <<>>, closed |-> TRUE]
    /\ onlineCh' = [q |-> <<>>, closed |-> TRUE]
    /\ sessionManager' = {}
    /\ pc' = [c \in Conns |-> "dead"]
    /\ ctx' = [c \in Conns |-> NoUser]
    /\ flap' = [c \in Conns |-> NoFlap]
    /\ ret' = [c \in Conns |-> "read"]
    /\ disconnected' = [c \in Conns |-> TRUE]
    /\ sent' = [c \in Conns |-> <<>>]
    /\ closeCalls' = [c \in Conns |-> 0]
    /\ closedOnce' = [c \in Conns |-> FALSE]
    /\ lastEvent' = NoEvent
    /\ flapsLeft' = 0
    /\ sessions' = {}
    /\ sessionsMutex' = NoLock
    /\ lookup' = IdleLookup
    /\ UNCHANGED <<status, messages, clock>>

Init ==
    /\ mainPc = "reset"
    /\ running = TRUE
    /\ listener = "none"
    /\ serviceManager = <<>>
    /\ metricsServer = "nil"
    /\ exitPc = "wait"
    /\ commCh = [q |-> <<>>, closed |-> FALSE]
    /\ onlineCh = [q |-> <<>>, closed |-> FALSE]
    /\ sessionManager = {}
    /\ status \in [Users -> {"Away", "Online"}]
    /\ pc = [c \in Conns |-> "free"]
    /\ ctx = [c \in Conns |-> NoUser]
    /\ flap = [c \in Conns |-> NoFlap]
    /\ ret = [c \in Conns |-> "read"]
    /\ disconnected = [c \in Conns |-> FALSE]
    /\ sent = [c \in Conns |-> <<>>]
    /\ closeCalls = [c \in Conns |-> 0]
    /\ closedOnce = [c \in Conns |-> FALSE]
    /\ lastEvent = NoEvent
    /\ flapsLeft = MaxFlaps
    /\ sessions = {}
    /\ sessionsMutex = NoLock
    /\ lookup = IdleLookup
    /\ messages = {}
    /\ clock = 1

\* ResetStatuses going on to listen whether or not the update succeeded.
ResetStatuses_IgnoresError ==
    /\ running /\ mainPc = "reset"
    /\ \E ok \in BOOLEAN :
         /\ status' = IF ok THEN [u \in Users |-> "Away"] ELSE status
         /\ mainPc' = "listen"
         /\ UNCHANGED <<running, listener, serviceManager, metricsServer, exitPc,
                        commCh, onlineCh, sessionManager, flapsLeft>>
         /\ UNCHANGED connVars
         /\ UNCHANGED <<legacyVars, messageVars>>
         /\ lastEvent' = NoEvent

\* main: every user is set Away; a failing update ends the process.
ResetStatuses ==
    /\ running /\ mainPc = "reset"
    /\ \E ok \in BOOLEAN :
         IF ok
         THEN /\ status' = [u \in Users |-> "Away"]
              /\ mainPc' = "listen"
              /\ UNCHANGED <<running, listener, serviceManager, metricsServer, exitPc,
                             commCh, onlineCh, sessionManager, flapsLeft>>
              /\ UNCHANGED connVars
              /\ UNCHANGED <<legacyVars, messageVars>>
              /\ lastEvent' = NoEvent
         ELSE Terminate("exited")

\* main: net.Listen; a failure ends the process.
Listen ==
    /\ running /\ mainPc = "listen"
    /\ \E ok \in BOOLEAN :
         IF ok
         THEN /\ listener' = "open"
              /\ mainPc' = "register"
              /\ UNCHANGED <<running, serviceManager, metricsServer, exitPc, commCh,
                             onlineCh, sessionManager, status, flapsLeft>>
              /\ UNCHANGED connVars
              /\ UNCHANGED <<legacyVars, messageVars>>
              /\ lastEvent' = NoEvent
         ELSE Terminate("exited")

\* main: the next serviceManager.RegisterService call.
RegisterService ==
    /\ running /\ mainPc = "register"
    /\ UNCHANGED <<legacyVars, messageVars>>
    /\ Len(serviceManager) < Len(Registrations)
    /\ serviceManager' = Append(serviceManager, Registrations[Len(serviceManager) + 1])
    /\ UNCHANGED <<mainPc, running, listener, metricsServer, exitPc, commCh, onlineCh,
                   sessionManager, status, flapsLeft>>
    /\ UNCHANGED connVars
    /\ lastEvent' = NoEvent

\* The configurations explored name a metrics address.
MetricsConfigured == {TRUE}

\* StartMetrics reached after the first registration already: the accept
\* loop begins with the table incomplete.
StartMetrics_Early ==
    /\ running /\ mainPc = "register"
    /\ UNCHANGED <<legacyVars, messageVars>>
    /\ Len(serviceManager) >= 1
    /\ \E configured \in MetricsConfigured :
         metricsServer' = IF configured THEN "open" ELSE "nil"
    /\ mainPc' = "serve"
    /\ UNCHANGED <<running, listener, serviceManager, exitPc, commCh, onlineCh,
                   sessionManager, status, flapsLeft>>
    /\ UNCHANGED connVars
    /\ lastEvent' = NoEvent

\* main: the metrics endpoint is started when the configuration names one;
\* then the shutdown goroutine is launched and the accept loop begins.
StartMetrics ==
    /\ running /\ mainPc = "register"
    /\ UNCHANGED <<legacyVars, messageVars>>
    /\ Len(serviceManager) = Len(Registrations)
    /\ \E configured \in MetricsConfigured :
         metricsServer' = IF configured THEN "open" ELSE "nil"
    /\ mainPc' = "serve"
    /\ UNCHANGED <<running, listener, serviceManager, exitPc, commCh, onlineCh,
                   sessionManager, status, flapsLeft>>
    /\ UNCHANGED connVars
    /\ lastEvent' = NoEvent

\* serviceManager.GetService
GetService(family) == \E i \in 1..Len(serviceManager) : serviceManager[i] = family

\* --------------------------------------------------------------- shutdown

\* The shutdown goroutine receives a signal from exitChan and closes commCh
\* and onlineCh.
ShutdownCloseQueues ==
    /\ running /\ mainPc = "serve" /\ exitPc = "wait"
    /\ UNCHANGED <<legacyVars, messageVars>>
    /\ commCh' = [commCh EXCEPT !.closed = TRUE]
    /\ onlineCh' = [onlineCh EXCEPT !.closed = TRUE]
    /\ exitPc' = "queuesClosed"
    /\ UNCHANGED <<mainPc, running, listener, serviceManager, metricsServer,
                   sessionManager, status, flapsLeft>>
    /\ UNCHANGED connVars
    /\ lastEvent' = NoEvent

\* The shutdown goroutine closes the metrics server, when there is one.
ShutdownCloseMetrics ==
    /\ running /\ exitPc = "queuesClosed"
    /\ UNCHANGED <<legacyVars, messageVars>>
    /\ metricsServer' = IF metricsServer = "nil" THEN "nil" ELSE "closed"
    /\ exitPc' = "metricsClosed"
    /\ UNCHANGED <<mainPc, running, listener, serviceManager, commCh,
                   onlineCh, sessionManager, status, flapsLeft>>
    /\ UNCHANGED connVars
    /\ lastEvent' = NoEvent

\* The shutdown goroutine calls os.Exit(1): the deferred listener.Close() of
\* main does not run.
ShutdownExit ==
    /\ running /\ exitPc = "metricsClosed"
    /\ Terminate("exited")

\* ------------------------------------------------------- the accept loop

\* main: listener.Accept succeeds and a handler task is started.
Accept(c) ==
    /\ running /\ mainPc = "serve" /\ listener = "open"
    /\ UNCHANGED <<legacyVars, messageVars>>
    /\ pc[c] = "free"
    /\ pc' = [pc EXCEPT ![c] = "read"]
    /\ UNCHANGED <<ctx, flap, ret, disconnected, sent, closeCalls, closedOnce>>
    /\ lastEvent' = NoEvent
    /\ UNCHANGED <<onlineCh, sessionManager, status, flapsLeft>>
    /\ UNCHANGED procVars

\* main: listener.Accept fails, and the process exits.
AcceptError ==
    /\ running /\ mainPc = "serve" /\ listener = "open"
    /\ Terminate("exited")

\* ----------------------------------------------------------- handleCloseFn

\* handleCloseFn is entered: without a user in the context it only logs and
\* returns to `back`; with one it goes on to user.SetAway.
EnterClose(c, back, event) ==
    /\ closeCalls' = [closeCalls EXCEPT ![c] = @ + 1]
    /\ IF ctx[c] = NoUser
       THEN /\ pc' = [pc EXCEPT ![c] = back]
            /\ flap' = [flap EXCEPT ![c] = NoFlap]
            /\ lastEvent' = [conn |-> c, kind |-> event]
            /\ UNCHANGED ret
       ELSE /\ pc' = [pc EXCEPT ![c] = "cl_away"]
            /\ ret' = [ret EXCEPT ![c] = back]
            /\ lastEvent' = NoEvent
            /\ UNCHANGED flap

\* handleCloseFn: user.SetAway(ctx, db)
CloseSetAway(c) ==
    /\ running /\ pc[c] = "cl_away"
    /\ UNCHANGED <<legacyVars, messageVars>>
    /\ status' = [status EXCEPT ![ctx[c]] = "Away"]
    /\ pc' = [pc EXCEPT ![c] = "cl_push"]
    /\ UNCHANGED <<ctx, flap, ret, disconnected, sent, closeCalls, closedOnce>>
    /\ lastEvent' = NoEvent
    /\ UNCHANGED <<onlineCh, sessionManager, flapsLeft>>
    /\ UNCHANGED procVars

\* handleCloseFn: onlineCh <- user. A send on a closed channel panics, and
\* the panic of a goroutine ends the process.
ClosePush(c) ==
    /\ running /\ pc[c] = "cl_push"
    /\ IF onlineCh.closed
       THEN Terminate("panicked")
       ELSE /\ onlineCh' = [onlineCh EXCEPT !.q = Append(@, ctx[c])]
            /\ pc' = [pc EXCEPT ![c] = "cl_disc"]
            /\ UNCHANGED <<ctx, flap, ret, disconnected, sent, closeCalls, closedOnce>>
            /\ lastEvent' = NoEvent
            /\ UNCHANGED <<sessionManager, status, flapsLeft>>
            /\ UNCHANGED procVars
            /\ UNCHANGED <<legacyVars, messageVars>>

\* handleCloseFn: session.Disconnect()
CloseDisconnect(c) ==
    /\ running /\ pc[c] = "cl_disc"
    /\ UNCHANGED <<legacyVars, messageVars>>
    /\ disconnected' = [disconnected EXCEPT ![c] = TRUE]
    /\ pc' = [pc EXCEPT ![c] = "cl_rm"]
    /\ UNCHANGED <<ctx, flap, ret, sent, closeCalls, closedOnce>>
    /\ lastEvent' = NoEvent
    /\ UNCHANGED <<onlineCh, sessionManager, status, flapsLeft>>
    /\ UNCHANGED procVars

\* What a run of handleCloseFn completes: the handling of the FLAP that led
\* to it, or the handler's exit.
CloseKind(c) ==
    IF ret[c] = "exit" THEN "exit"
    ELSE IF flap[c].channel = 4 THEN "close4"
    ELSE IF UnmarshalSNAC(flap[c].data).ok THEN "svcErr" ELSE "snacBad"

\* handleCloseFn: sessionManager.RemoveSession(user.ScreenName), and the
\* return to the caller.
CloseRemove(c) ==
    /\ running /\ pc[c] = "cl_rm"
    /\ UNCHANGED <<legacyVars, messageVars>>
    /\ sessionManager' = RemoveSession(sessionManager, ctx[c])
    /\ closedOnce' = [closedOnce EXCEPT ![c] = TRUE]
    /\ pc' = [pc EXCEPT ![c] = ret[c]]
    /\ flap' = [flap EXCEPT ![c] = NoFlap]
    /\ lastEvent' = [conn |-> c, kind |-> CloseKind(c)]
    /\ UNCHANGED <<ctx, ret, disconnected, sent, closeCalls>>
    /\ UNCHANGED <<onlineCh, status, flapsLeft>>
    /\ UNCHANGED procVars

\* ------------------------------------------------------------ the handler

\* The read ends on EOF or on a read error (the peer went away, or the
\* socket was closed): the handler calls handleCloseFn and exits.
HandlerReadEnd(c) ==
    /\ running /\ pc[c] = "read"
    /\ UNCHANGED <<legacyVars, messageVars>>
    /\ EnterClose(c, "exit", "exit")
    /\ UNCHANGED <<ctx, disconnected, sent, closedOnce>>
    /\ UNCHANGED <<onlineCh, sessionManager, status, flapsLeft>>
    /\ UNCHANGED procVars

\* ---------------------------------------------------------------- handleFn

\* handleFn returns to the read loop.
Return(c, event) ==
    /\ pc' = [pc EXCEPT ![c] = "read"]
    /\ flap' = [flap EXCEPT ![c] = NoFlap]
    /\ lastEvent' = [conn |-> c, kind |-> event]

\* session.Send: the FLAP is written unless the session is disconnected.
Send(c, f) == IF disconnected[c] THEN sent[c] ELSE Append(sent[c], f)

\* RegisterUser writing the map itself, without closing the session the name
\* was mapped to.
RegisterUser_NoClose(c) ==
    /\ sessionManager' = SetSession(sessionManager, ctx[c], c)
    /\ UNCHANGED disconnected

\* handleFn, first part: a context that carries a user registers the session
\* under the user's screen name.
RegisterUser(c) ==
    /\ sessionManager' = SetSession(sessionManager, ctx[c], c)
    /\ disconnected' = [d \in Conns |->
                          disconnected[d] \/ d \in Evicted(sessionManager, ctx[c], c)]

\* The handler's read loop reads the next FLAP and calls handleFn with it;
\* handleFn first registers the session when the context carries a user.
HandlerRead(c, f) ==
    /\ running /\ pc[c] = "read"
    /\ UNCHANGED <<legacyVars, messageVars>>
    /\ ~disconnected[c]
    /\ flapsLeft > 0
    /\ flapsLeft' = flapsLeft - 1
    /\ flap' = [flap EXCEPT ![c] = f]
    /\ IF ctx[c] # NoUser
       THEN RegisterUser(c)
       ELSE UNCHANGED <<sessionManager, disconnected>>
    /\ pc' = [pc EXCEPT ![c] = "hf_chan"]
    /\ UNCHANGED <<ctx, ret, sent, closeCalls, closedOnce>>
    /\ lastEvent' = NoEvent
    /\ UNCHANGED <<onlineCh, status>>
    /\ UNCHANGED procVars

\* Channel 1, the hello: nothing to do.
handleFn_Hello(c) ==
    /\ running /\ pc[c] = "hf_chan"
    /\ UNCHANGED <<legacyVars, messageVars>>
    /\ flap[c].channel = 1 /\ flap[c].data = Hello
    /\ Return(c, "hello")
    /\ UNCHANGED <<ctx, ret, disconnected, sent, closeCalls, closedOnce>>
    /\ UNCHANGED <<onlineCh, sessionManager, status, flapsLeft>>
    /\ UNCHANGED procVars

\* CookieRejected closing the session.
CookieRejected_Closes(c) ==
    /\ Return(c, "authFail")
    /\ disconnected' = [disconnected EXCEPT ![c] = TRUE]
    /\ UNCHANGED <<ctx, ret, sent, closeCalls, closedOnce>>

\* Channel 1, the cookie does not authenticate: the error is logged.
CookieRejected(c) ==
    /\ Return(c, "authFail")
    /\ UNCHANGED <<ctx, ret, disconnected, sent, closeCalls, closedOnce>>

\* ServicesFlap leaving out the last entry.
ServicesFlap_DropsLast ==
    [channel |-> 2,
     data |-> MarshalSNAC(1, 3, WriteFamilies(SubSeq(ServiceVersions, 1, Len(ServiceVersions) - 1)))]

\* The FLAP that advertises the services: SNAC (0x01, 0x03) with the family
\* of every entry of services.ServiceVersions.
ServicesFlap ==
    [channel |-> 2, data |-> MarshalSNAC(1, 3, WriteFamilies(ServiceVersions))]

\* Channel 1, the cookie authenticates: the user rides on the context from
\* here on and the services are advertised.
CookieAccepted(c, user) ==
    /\ ctx' = [ctx EXCEPT ![c] = user]
    /\ sent' = [sent EXCEPT ![c] = Send(c, ServicesFlap)]
    /\ Return(c, "authOk")
    /\ UNCHANGED <<ret, disconnected, closeCalls, closedOnce>>

handleFn_Cookie(c) ==
    /\ running /\ pc[c] = "hf_chan"
    /\ UNCHANGED <<legacyVars, messageVars>>
    /\ flap[c].channel = 1 /\ flap[c].data # Hello
    /\ LET auth == AuthenticateFLAPCookie(flap[c]) IN
         IF auth.ok THEN CookieAccepted(c, auth.user) ELSE CookieRejected(c)
    /\ UNCHANGED <<onlineCh, sessionManager, status, flapsLeft>>
    /\ UNCHANGED procVars

\* Channel 2, the payload is no SNAC: disconnect and run the close handler.
handleFn_BadSNAC(c) ==
    /\ running /\ pc[c] = "hf_chan"
    /\ UNCHANGED <<legacyVars, messageVars>>
    /\ flap[c].channel = 2 /\ ~UnmarshalSNAC(flap[c].data).ok
    /\ disconnected' = [disconnected EXCEPT ![c] = TRUE]
    /\ EnterClose(c, "read", "snacBad")
    /\ UNCHANGED <<ctx, sent, closedOnce>>
    /\ UNCHANGED <<onlineCh, sessionManager, status, flapsLeft>>
    /\ UNCHANGED procVars

\* handleFn_NoService treating the missing service like a service error.
handleFn_NoService_Fatal(c) ==
    /\ running /\ pc[c] = "hf_chan"
    /\ UNCHANGED <<legacyVars, messageVars>>
    /\ flap[c].channel = 2
    /\ UnmarshalSNAC(flap[c].data).ok
    /\ ~GetService(UnmarshalSNAC(flap[c].data).family)
    /\ disconnected' = [disconnected EXCEPT ![c] = TRUE]
    /\ Return(c, "noSvc")
    /\ UNCHANGED <<ctx, ret, sent, closeCalls, closedOnce>>
    /\ UNCHANGED <<onlineCh, sessionManager, status, flapsLeft>>
    /\ UNCHANGED procVars

\* Channel 2, no service is registered for the family: the FLAP is dropped.
handleFn_NoService(c) ==
    /\ running /\ pc[c] = "hf_chan"
    /\ UNCHANGED <<legacyVars, messageVars>>
    /\ flap[c].channel = 2
    /\ UnmarshalSNAC(flap[c].data).ok
    /\ ~GetService(UnmarshalSNAC(flap[c].data).family)
    /\ Return(c, "noSvc")
    /\ UNCHANGED <<ctx, ret, disconnected, sent, closeCalls, closedOnce>>
    /\ UNCHANGED <<onlineCh, sessionManager, status, flapsLeft>>
    /\ UNCHANGED procVars

\* LocationServices.HandleSNAC for (0x02, 0x04) with an empty away message:
\* a user who was Away becomes Online and is pushed onto the presence queue.
SetProfile(c) ==
    IF ctx[c] # NoUser /\ status[ctx[c]] = "Away"
    THEN /\ status' = [status EXCEPT ![ctx[c]] = "Online"]
         /\ onlineCh' = [onlineCh EXCEPT !.q = Append(@, ctx[c])]
    ELSE UNCHANGED <<status, onlineCh>>

\* Channel 2, the service handles the SNAC.
handleFn_Service(c) ==
    /\ running /\ pc[c] = "hf_chan"
    /\ flap[c].channel = 2
    /\ UnmarshalSNAC(flap[c].data).ok
    /\ GetService(UnmarshalSNAC(flap[c].data).family)
    /\ IF ctx[c] # NoUser /\ status[ctx[c]] = "Away" /\ onlineCh.closed
       THEN Terminate("panicked")
       ELSE /\ SetProfile(c)
            /\ Return(c, "svcOk")
            /\ UNCHANGED <<ctx, ret, disconnected, sent, closeCalls, closedOnce>>
            /\ UNCHANGED <<sessionManager, flapsLeft>>
            /\ UNCHANGED procVars
            /\ UNCHANGED <<legacyVars, messageVars>>

\* Channel 2, the service returns an error (a failing repository call):
\* disconnect and run the close handler.
handleFn_ServiceError(c) ==
    /\ running /\ pc[c] = "hf_chan"
    /\ UNCHANGED <<legacyVars, messageVars>>
    /\ flap[c].channel = 2
    /\ UnmarshalSNAC(flap[c].data).ok
    /\ GetService(UnmarshalSNAC(flap[c].data).family)
    /\ disconnected' = [disconnected EXCEPT ![c] = TRUE]
    /\ EnterClose(c, "read", "svcErr")
    /\ UNCHANGED <<ctx, sent, closedOnce>>
    /\ UNCHANGED <<onlineCh, sessionManager, status, flapsLeft>>
    /\ UNCHANGED procVars

\* Channel 4: the close handler runs.
handleFn_Close(c) ==
    /\ running /\ pc[c] = "hf_chan"
    /\ UNCHANGED <<legacyVars, messageVars>>
    /\ flap[c].channel = 4
    /\ EnterClose(c, "read", "close4")
    /\ UNCHANGED <<ctx, disconnected, sent, closedOnce>>
    /\ UNCHANGED <<onlineCh, sessionManager, status, flapsLeft>>
    /\ UNCHANGED procVars

\* Channel 5, the keepalive.
handleFn_Keepalive(c) ==
    /\ running /\ pc[c] = "hf_chan"
    /\ UNCHANGED <<legacyVars, messageVars>>
    /\ flap[c].channel = 5
    /\ Return(c, "keepalive")
    /\ UNCHANGED <<ctx, ret, disconnected, sent, closeCalls, closedOnce>>
    /\ UNCHANGED <<onlineCh, sessionManager, status, flapsLeft>>
    /\ UNCHANGED procVars

\* Any other channel is logged.
handleFn_Unhandled(c) ==
    /\ running /\ pc[c] = "hf_chan"
    /\ UNCHANGED <<legacyVars, messageVars>>
    /\ flap[c].channel \notin {1, 2, 4, 5}
    /\ Return(c, "unhandled")
    /\ UNCHANGED <<ctx, ret, disconnected, sent, closeCalls, closedOnce>>
    /\ UNCHANGED <<onlineCh, sessionManager, status, flapsLeft>>
    /\ UNCHANGED procVars

\* ---------------------------------------------------------- specification

Next ==
    \/ ResetStatuses
    \/ Listen
    \/ RegisterService
    \/ StartMetrics
    \/ ShutdownCloseQueues
    \/ ShutdownCloseMetrics
    \/ ShutdownExit
    \/ \E c \in Conns : Accept(c)
    \/ AcceptError
    \/ \E c \in Conns : \E f \in ClientFlaps : HandlerRead(c, f)
    \/ \E c \in Conns : HandlerReadEnd(c)
    \/ \E c \in Conns : handleFn_Hello(c)
    \/ \E c \in Conns : handleFn_Cookie(c)
    \/ \E c \in Conns : handleFn_BadSNAC(c)
    \/ \E c \in Conns : handleFn_NoService(c)
    \/ \E c \in Conns : handleFn_Service(c)
    \/ \E c \in Conns : handleFn_ServiceError(c)
    \/ \E c \in Conns : handleFn_Close(c)
    \/ \E c \in Conns : handleFn_Keepalive(c)
    \/ \E c \in Conns : handleFn_Unhandled(c)
    \/ \E c \in Conns : CloseSetAway(c)
    \/ \E c \in Conns : ClosePush(c)
    \/ \E c \in Conns : CloseDisconnect(c)
    \/ \E c \in Conns : CloseRemove(c)

Spec == Init /\ [][Next]_vars

\* ======================================================================
\* main.go: the server with the registry kept in the package's `sessions`
\* map, guarded by sessionsMutex in getSession.
\* ======================================================================

\* The registrations main.go performs, in order.
LegacyRegistrations == <<FamGeneric, FamLocation, FamBuddy, FamICBM, FamAuth>>

LegacyInit ==
    /\ mainPc = "fixtures"
    /\ running = TRUE
    /\ listener = "none"
    /\ serviceManager = <<>>
    /\ metricsServer = "nil"
    /\ exitPc = "wait"
    /\ commCh = [q |-> <<>>, closed |-> FALSE]
    /\ onlineCh = [q |-> <<>>, closed |-> FALSE]
    /\ sessionManager = {}
    /\ status \in [Users -> {"Away", "Online"}]
    /\ pc = [c \in Conns |-> "free"]
    /\ ctx = [c \in Conns |-> NoUser]
    /\ flap = [c \in Conns |-> NoFlap]
    /\ ret = [c \in Conns |-> "read"]
    /\ disconnected = [c \in Conns |-> FALSE]
    /\ sent = [c \in Conns |-> <<>>]
    /\ closeCalls = [c \in Conns |-> 0]
    /\ closedOnce = [c \in Conns |-> FALSE]
    /\ lastEvent = NoEvent
    /\ flapsLeft = MaxFlaps
    /\ sessions = {}
    /\ sessionsMutex = NoLock
    /\ lookup = IdleLookup
    /\ messages = {}
    /\ clock = 1

\* What the legacy server never touches.
legacyFrame == <<metricsServer, sessionManager, closedOnce, messages, clock>>

\* main: the fixtures are loaded; a failure panics.
L_LoadFixtures ==
    /\ running /\ mainPc = "fixtures"
    /\ \E ok \in BOOLEAN :
         IF ok
         THEN /\ mainPc' = "listen"
              /\ UNCHANGED <<running, listener, serviceManager, exitPc, commCh, onlineCh,
                             status, flapsLeft, lastEvent>>
              /\ UNCHANGED <<connVars, legacyVars, legacyFrame>>
         ELSE Terminate("panicked")

\* main: net.Listen; a failure ends the process.
L_Listen ==
    /\ running /\ mainPc = "listen"
    /\ \E ok \in BOOLEAN :
         IF ok
         THEN /\ listener' = "open"
              /\ mainPc' = "register"
              /\ UNCHANGED <<running, serviceManager, exitPc, commCh, onlineCh,
                             status, flapsLeft, lastEvent>>
              /\ UNCHANGED <<connVars, legacyVars, legacyFrame>>
         ELSE Terminate("exited")

\* RegisterService: services[family] = service, for main's next registration;
\* after the last one the shutdown goroutine is started and the accept loop
\* begins.
L_RegisterService ==
    /\ running /\ mainPc = "register"
    /\ serviceManager' = Append(serviceManager, LegacyRegistrations[Len(serviceManager) + 1])
    /\ mainPc' = IF Len(serviceManager') = Len(LegacyRegistrations) THEN "serve" ELSE "register"
    /\ UNCHANGED <<running, listener, exitPc, commCh, onlineCh, status, flapsLeft, lastEvent>>
    /\ UNCHANGED <<connVars, legacyVars, legacyFrame>>

\* The shutdown goroutine receives a signal and closes commCh and onlineCh.
L_ShutdownCloseQueues ==
    /\ running /\ mainPc = "serve" /\ exitPc = "wait"
    /\ commCh' = [commCh EXCEPT !.closed = TRUE]
    /\ onlineCh' = [onlineCh EXCEPT !.closed = TRUE]
    /\ exitPc' = "queuesClosed"
    /\ UNCHANGED <<mainPc, running, listener, serviceManager, status, flapsLeft, lastEvent>>
    /\ UNCHANGED <<connVars, legacyVars, legacyFrame>>

\* The shutdown goroutine calls os.Exit(1).
L_ShutdownExit ==
    /\ running /\ exitPc = "queuesClosed"
    /\ Terminate("exited")

\* main: listener.Accept succeeds and a handler task is started.
L_Accept(c) ==
    /\ running /\ mainPc = "serve" /\ listener = "open"
    /\ pc[c] = "free"
    /\ pc' = [pc EXCEPT ![c] = "read"]
    /\ UNCHANGED <<ctx, flap, ret, disconnected, sent, closeCalls>>
    /\ UNCHANGED <<onlineCh, status, flapsLeft, lastEvent>>
    /\ UNCHANGED <<procVars, legacyVars, legacyFrame>>

\* main: listener.Accept fails, and the process exits.
L_AcceptError ==
    /\ running /\ mainPc = "serve" /\ listener = "open"
    /\ Terminate("exited")

\* ---------------------------------------------------------------- getSession

\* getSession: sessionsMutex.RLock(), and the read of the map begins.
getSession_RLock(name) ==
    /\ running /\ mainPc = "serve"
    /\ lookup.pc = "idle"
    /\ sessionsMutex.writers = {}
    /\ sessionsMutex' = [sessionsMutex EXCEPT !.readers = @ \cup {"lookup"}]
    /\ lookup' = [pc |-> "reading", name |-> name]
    /\ UNCHANGED <<sessions, onlineCh, status, flapsLeft, lastEvent>>
    /\ UNCHANGED <<procVars, connVars, legacyFrame>>

\* getSession: the read of the map ends, sessionsMutex.RUnlock(), and the
\* session or nil is returned to the caller. A read that overlaps a write of
\* the map is a data race: it may return any session or none (the callers
\* are outside this file and the value is not kept), or the runtime may stop
\* the process.
getSession_RUnlock ==
    /\ running /\ lookup.pc = "reading"
    /\ \/ /\ lookup' = IdleLookup
          /\ sessionsMutex' = [sessionsMutex EXCEPT !.readers = @ \ {"lookup"}]
          /\ UNCHANGED <<sessions, onlineCh, status, flapsLeft, lastEvent>>
          /\ UNCHANGED <<procVars, connVars, legacyFrame>>
       \/ /\ \E c \in Conns : pc[c] = "l_write"
          /\ Terminate("fatal")

\* ------------------------------------------------- main.go: handleCloseFn

\* handleCloseFn is entered: without a user it only logs.
L_EnterClose(c, back) ==
    /\ closeCalls' = [closeCalls EXCEPT ![c] = @ + 1]
    /\ IF ctx[c] = NoUser
       THEN /\ pc' = [pc EXCEPT ![c] = back]
            /\ flap' = [flap EXCEPT ![c] = NoFlap]
            /\ UNCHANGED ret
       ELSE /\ pc' = [pc EXCEPT ![c] = "lc_away"]
            /\ ret' = [ret EXCEPT ![c] = back]
            /\ UNCHANGED flap

\* handleCloseFn: user.Status = UserStatusAway; user.Update(ctx, db)
L_CloseUpdate(c) ==
    /\ running /\ pc[c] = "lc_away"
    /\ status' = [status EXCEPT ![ctx[c]] = "Away"]
    /\ pc' = [pc EXCEPT ![c] = "lc_push"]
    /\ UNCHANGED <<ctx, flap, ret, disconnected, sent, closeCalls>>
    /\ UNCHANGED <<onlineCh, flapsLeft, lastEvent>>
    /\ UNCHANGED <<procVars, legacyVars, legacyFrame>>

\* handleCloseFn: onlineCh <- user, and the return to the caller. A send on a
\* closed channel panics.
L_ClosePush(c) ==
    /\ running /\ pc[c] = "lc_push"
    /\ IF onlineCh.closed
       THEN Terminate("panicked")
       ELSE /\ onlineCh' = [onlineCh EXCEPT !.q = Append(@, ctx[c])]
            /\ pc' = [pc EXCEPT ![c] = ret[c]]
            /\ flap' = [flap EXCEPT ![c] = NoFlap]
            /\ UNCHANGED <<ctx, ret, disconnected, sent, closeCalls>>
            /\ UNCHANGED <<status, flapsLeft, lastEvent>>
            /\ UNCHANGED <<procVars, legacyVars, legacyFrame>>

\* ------------------------------------------------------ main.go: handleFn

\* The handler's read loop reads the next FLAP and calls handleFn with it;
\* with a user in the context handleFn starts to write the sessions map.
L_HandlerRead(c, f) ==
    /\ running /\ pc[c] = "read"
    /\ ~disconnected[c]
    /\ flapsLeft > 0
    /\ flapsLeft' = flapsLeft - 1
    /\ flap' = [flap EXCEPT ![c] = f]
    /\ pc' = [pc EXCEPT ![c] = IF ctx[c] # NoUser THEN "l_write" ELSE "hf_chan"]
    /\ UNCHANGED <<ctx, ret, disconnected, sent, closeCalls>>
    /\ UNCHANGED <<onlineCh, status, lastEvent>>
    /\ UNCHANGED <<procVars, legacyVars, legacyFrame>>

\* The read ends on EOF or on a read error: the handler calls handleCloseFn
\* and exits.
L_HandlerReadEnd(c) ==
    /\ running /\ pc[c] = "read"
    /\ L_EnterClose(c, "exit")
    /\ UNCHANGED <<ctx, disconnected, sent>>
    /\ UNCHANGED <<onlineCh, status, flapsLeft, lastEvent>>
    /\ UNCHANGED <<procVars, legacyVars, legacyFrame>>

\* handleFn: sessions[user.Username] = session, written without the mutex.
\* A write that overlaps another access of the map is a data race: the
\* runtime may stop the process.
L_MapWrite(c) ==
    /\ running /\ pc[c] = "l_write"
    /\ \/ /\ sessions' = SetSession(sessions, ctx[c], c)
          /\ pc' = [pc EXCEPT ![c] = "hf_chan"]
          /\ UNCHANGED <<ctx, flap, ret, disconnected, sent, closeCalls>>
          /\ UNCHANGED <<sessionsMutex, lookup, onlineCh, status, flapsLeft, lastEvent>>
          /\ UNCHANGED <<procVars, legacyFrame>>
       \/ /\ lookup.pc = "reading" \/ \E d \in Conns \ {c} : pc[d] = "l_write"
          /\ Terminate("fatal")

\* handleFn returns to the read loop.
L_Return(c) ==
    /\ pc' = [pc EXCEPT ![c] = "read"]
    /\ flap' = [flap EXCEPT ![c] = NoFlap]

\* Channel 1, the hello.
L_Hello(c) ==
    /\ running /\ pc[c] = "hf_chan"
    /\ flap[c].channel = 1 /\ flap[c].data = Hello
    /\ L_Return(c)
    /\ UNCHANGED <<ctx, ret, disconnected, sent, closeCalls>>
    /\ UNCHANGED <<onlineCh, status, flapsLeft, lastEvent>>
    /\ UNCHANGED <<procVars, legacyVars, legacyFrame>>

\* The FLAP that advertises the services: SNAC (1, 3) with the keys of the
\* versions map. The order of a map iteration is unspecified; the FLAP is
\* kept with the set of families it lists.
L_ServicesFlap ==
    [channel |-> 2, data |-> MarshalSNAC(1, 3, <<>>),
     families |-> {LegacyRegistrations[i] : i \in 1..Len(LegacyRegistrations)}]

\* Channel 1 with a cookie: a cookie that authenticates puts the user into
\* the context and the services are advertised; another is logged.
L_Cookie(c) ==
    /\ running /\ pc[c] = "hf_chan"
    /\ flap[c].channel = 1 /\ flap[c].data # Hello
    /\ LET auth == AuthenticateFLAPCookie(flap[c]) IN
         IF auth.ok
         THEN /\ ctx' = [ctx EXCEPT ![c] = auth.user]
              /\ sent' = [sent EXCEPT ![c] = Send(c, L_ServicesFlap)]
         ELSE UNCHANGED <<ctx, sent>>
    /\ L_Return(c)
    /\ UNCHANGED <<ret, disconnected, closeCalls>>
    /\ UNCHANGED <<onlineCh, status, flapsLeft, lastEvent>>
    /\ UNCHANGED <<procVars, legacyVars, legacyFrame>>

\* Channel 2, the payload is no SNAC, or the service returns an error:
\* util.PanicIfError panics.
L_SNACPanic(c) ==
    /\ running /\ pc[c] = "hf_chan"
    /\ flap[c].channel = 2
    /\ \/ ~UnmarshalSNAC(flap[c].data).ok
       \/ GetService(UnmarshalSNAC(flap[c].data).family)
    /\ Terminate("panicked")

\* Channel 2, no service is registered for the family.
L_NoService(c) ==
    /\ running /\ pc[c] = "hf_chan"
    /\ flap[c].channel = 2
    /\ UnmarshalSNAC(flap[c].data).ok
    /\ ~GetService(UnmarshalSNAC(flap[c].data).family)
    /\ L_Return(c)
    /\ UNCHANGED <<ctx, ret, disconnected, sent, closeCalls>>
    /\ UNCHANGED <<onlineCh, status, flapsLeft, lastEvent>>
    /\ UNCHANGED <<procVars, legacyVars, legacyFrame>>

\* Channel 2, the service handles the SNAC.
L_Service(c) ==
    /\ running /\ pc[c] = "hf_chan"
    /\ flap[c].channel = 2
    /\ UnmarshalSNAC(flap[c].data).ok
    /\ GetService(UnmarshalSNAC(flap[c].data).family)
    /\ IF ctx[c] # NoUser /\ status[ctx[c]] = "Away" /\ onlineCh.closed
       THEN Terminate("panicked")
       ELSE /\ SetProfile(c)
            /\ L_Return(c)
            /\ UNCHANGED <<ctx, ret, disconnected, sent, closeCalls>>
            /\ UNCHANGED <<flapsLeft, lastEvent>>
            /\ UNCHANGED <<procVars, legacyVars, legacyFrame>>

\* Channel 4: session.Disconnect(), then the close handler.
L_Close(c) ==
    /\ running /\ pc[c] = "hf_chan"
    /\ flap[c].channel = 4
    /\ disconnected' = [disconnected EXCEPT ![c] = TRUE]
    /\ L_EnterClose(c, "read")
    /\ UNCHANGED <<ctx, sent>>
    /\ UNCHANGED <<onlineCh, status, flapsLeft, lastEvent>>
    /\ UNCHANGED <<procVars, legacyVars, legacyFrame>>

\* Any other channel: handleFn returns the context.
L_OtherChannel(c) ==
    /\ running /\ pc[c] = "hf_chan"
    /\ flap[c].channel \notin {1, 2, 4}
    /\ L_Return(c)
    /\ UNCHANGED <<ctx, ret, disconnected, sent, closeCalls>>
    /\ UNCHANGED <<onlineCh, status, flapsLeft, lastEvent>>
    /\ UNCHANGED <<procVars, legacyVars, legacyFrame>>

LegacyNext ==
    \/ L_LoadFixtures
    \/ L_Listen
    \/ L_RegisterService
    \/ L_ShutdownCloseQueues
    \/ L_ShutdownExit
    \/ \E name \in Users : getSession_RLock(name)
    \/ getSession_RUnlock
    \/ \E c \in Conns : L_Accept(c)
    \/ L_AcceptError
    \/ \E c \in Conns : \E f \in ClientFlaps : L_HandlerRead(c, f)
    \/ \E c \in Conns : L_HandlerReadEnd(c)
    \/ \E c \in Conns : L_MapWrite(c)
    \/ \E c \in Conns : L_Hello(c)
    \/ \E c \in Conns : L_Cookie(c)
    \/ \E c \in Conns : L_SNACPanic(c)
    \/ \E c \in Conns : L_NoService(c)
    \/ \E c \in Conns : L_Service(c)
    \/ \E c \in Conns : L_Close(c)
    \/ \E c \in Conns : L_OtherChannel(c)
    \/ \E c \in Conns : L_CloseUpdate(c)
    \/ \E c \in Conns : L_ClosePush(c)

LegacySpec == LegacyInit /\ [][LegacyNext]_vars

\* ======================================================================
\* models.Message: the rows of the messages table.
\* ======================================================================

\* The message ids, senders' texts and the zero time.Time (a NULL column).
MessageIds == {1, 2}
Contents == {"hi"}
ZeroTime == 0

\* The values a Message can take.
Message == [MessageID : MessageIds, From : Users, To : Users, Contents : Contents,
            CreatedAt : 1..MaxClock, DeliveredAt : {ZeroTime} \cup 1..MaxClock]

\* InsertMessage: the row is built with the four arguments, DeliveredAt is
\* left at its zero value and CreatedAt is filled by the column default. The
\* insert fails on a message id that is already there, and nothing is stored.
InsertMessage(messageId, from, to, contents) ==
    /\ IF \E m \in messages : m.MessageID = messageId
       THEN UNCHANGED messages
       ELSE messages' = messages \cup
                {[MessageID |-> messageId, From |-> from, To |-> to,
                  Contents |-> contents, CreatedAt |-> clock, DeliveredAt |-> ZeroTime]}
    /\ UNCHANGED clock
    /\ UNCHANGED serverVars

\* Message.MarkDelivered: m.DeliveredAt = time.Now(), and the row with m's
\* message id is updated from m.
MarkDelivered(m) ==
    /\ m \in messages
    /\ messages' = {IF r.MessageID = m.MessageID
                    THEN [m EXCEPT !.DeliveredAt = clock]
                    ELSE r : r \in messages}
    /\ UNCHANGED clock
    /\ UNCHANGED serverVars

\* Time passes.
Tick ==
    /\ clock < MaxClock
    /\ clock' = clock + 1
    /\ UNCHANGED messages
    /\ UNCHANGED serverVars

MessageNext ==
    \/ \E messageId \in MessageIds : \E from, to \in Users : \E contents \in Contents :
           InsertMessage(messageId, from, to, contents)
    \/ \E m \in Message : MarkDelivered(m)
    \/ Tick

MessageSpec == Init /\ [][MessageNext]_vars

\* ------------------------------------------------------------------ claims

Event(c, kind) == lastEvent = [conn |-> c, kind |-> kind]

\* C1: over a connection's lifetime handleCloseFn is invoked exactly once,
\* whichever close triggers occur: never more than once, and once when the
\* handler has exited.
C1_CloseExactlyOnce ==
    \A c \in Conns :
        /\ closeCalls[c] <= 1
        /\ pc[c] = "exit" => closeCalls[c] = 1

\* C2: once handleFn has processed a channel-4 FLAP, the connection's session
\* is disconnected, with or without an authenticated user.
C2_Channel4Disconnects ==
    \A c \in Conns : Event(c, "close4") => disconnected[c]

C5_RegistryHoldsLiveSessions ==
    \A e \in sessionManager : ~disconnected[e.sess]

\* A step of connection c that handles the failure of a channel-2 FLAP.
FailureStep(c) ==
    /\ flap[c].channel = 2
    /\ pc'[c] # pc[c]
    /\ \/ pc[c] \in ClosePhases
       \/ pc'[c] \in ClosePhases
       \/ lastEvent' \in {[conn |-> c, kind |-> k] : k \in {"snacBad", "svcErr"}}

\* C6: a failing channel-2 FLAP is fatal for its connection only: when its
\* handling is over the session is disconnected, the user is Away and the
\* registry no longer maps the user to the session, and no step of the handling touches another connection's
\* session, context or registry entry.
C6_FailureIsLocal ==
    [][\A c \in Conns :
          (FailureStep(c) /\ running') =>
              /\ \A d \in Conns \ {c} :
                    /\ disconnected'[d] = disconnected[d]
                    /\ ctx'[d] = ctx[d]
                    /\ pc'[d] = pc[d]
                    /\ [name |-> ctx[d], sess |-> d] \in sessionManager
                           => [name |-> ctx[d], sess |-> d] \in sessionManager'
              /\ pc'[c] = "read" =>
                    /\ disconnected'[c]
                    /\ ctx[c] # NoUser =>
                          /\ status'[ctx[c]] = "Away"
                          /\ [name |-> ctx[c], sess |-> c] \notin sessionManager']_vars

\* The bytes of SNAC (0x01, 0x03) listing the families 0x01, 0x02, 0x03,
\* 0x04, 0x17, 0x18.
AdvertisedBytes ==
    <<0, 1, 0, 3, 0, 0, 0, 0, 0, 0>>
        \o <<0, 1, 0, 2, 0, 3, 0, 4, 0, 23, 0, 24>>

\* The families a payload lists, two bytes each.
RECURSIVE FamiliesOf(_)
FamiliesOf(bytes) ==
    IF Len(bytes) < 2 THEN <<>>
    ELSE <<ReadUint16(bytes, 1)>> \o FamiliesOf(SubSeq(bytes, 3, Len(bytes)))

C8_CloseIdempotent ==
    [][\A c \in Conns :
          (closedOnce[c] /\ pc[c] \in ClosePhases /\ pc'[c] # pc[c] /\ running') =>
              UNCHANGED <<onlineCh, status, sessionManager, disconnected>>]_vars

\* C9: shutdown closes the listener before it closes the queues and the
\* metrics server: while the process runs with a queue or the metrics server
\* closed, the listener is not open, and no connection is accepted.
C9_ShutdownOrder ==
    (running /\ (commCh.closed \/ onlineCh.closed \/ metricsServer = "closed"))
        => listener # "open"

\* C10: every read and every write of the sessions map happens while the
\* task holds sessionsMutex: a connection task that writes the map holds the
\* write lock, a lookup that reads it holds the read lock, and so no write
\* overlaps another access of the map.
C10_MapAccessUnderMutex ==
    /\ \A c \in Conns : pc[c] = "l_write" => c \in sessionsMutex.writers
    /\ lookup.pc = "reading" => "lookup" \in sessionsMutex.readers
    /\ \A c \in Conns : pc[c] = "l_write" =>
          /\ lookup.pc # "reading"
          /\ \A d \in Conns \ {c} : pc[d] # "l_write"

\* C16: a message is created with delivered-at unset, and once delivered-at
\* is set no later operation changes it.
C16_DeliveredAtWrittenOnce ==
    [][/\ \A m \in messages' :
             (\A r \in messages : r.MessageID # m.MessageID) => m.DeliveredAt = ZeroTime
       /\ \A r \in messages : \A m \in messages' :
             (r.MessageID = m.MessageID /\ r.DeliveredAt # ZeroTime)
                => m.DeliveredAt = r.DeliveredAt]_vars

\* C11: no connection is accepted before every user's status has been reset
\* to Away: main leaves the reset only with every user Away or by ending the
\* process, the listener is opened only after the reset, and when the first
\* connection is accepted every user is still Away. A process that ended in
\* the reset never listened.
C11_ResetBeforeAccept ==
    [][/\ (mainPc = "reset" /\ running') =>
             (mainPc' = "reset" \/ \A u \in Users : status'[u] = "Away")
       /\ (mainPc = "reset" /\ ~running') =>
             (listener = "none" /\ listener' = "none" /\ \A c \in Conns : pc[c] = "free")
       /\ (listener' = "open") => mainPc' \notin {"reset", "listen"}
       /\ ((\A c \in Conns : pc[c] = "free") /\ (\E c \in Conns : pc'[c] = "read")) =>
             (mainPc = "serve" /\ \A u \in Users : status[u] = "Away")]_vars

\* The first connection has just been accepted, before any FLAP was read.
C11_Witness ==
    /\ mainPc = "serve"
    /\ \E c \in Conns : pc[c] = "read" /\ closeCalls[c] = 0
    /\ \A u \in Users : status[u] = "Away"
    /\ flapsLeft = MaxFlaps

\* C12: every registration is done before the first connection is accepted,
\* and from then on the service table does not change while the process
\* runs: every lookup of a connection task sees the full table.
C12_ServiceTableFixed ==
    [][/\ (\E c \in Conns : pc[c] = "free" /\ pc'[c] = "read") =>
             serviceManager = Registrations
       /\ ((\E c \in Conns : pc[c] # "free") /\ running') =>
             (serviceManager' = serviceManager /\ serviceManager = Registrations)
       /\ (\E c \in Conns : pc[c] = "hf_chan" /\ flap[c].channel = 2) =>
             \A i \in 1..Len(Registrations) : GetService(Registrations[i])]_vars

\* A connection task looks a family up in the table.
C12_Witness ==
    \E c \in Conns :
       /\ pc[c] = "hf_chan" /\ flap[c].channel = 2
       /\ UnmarshalSNAC(flap[c].data).ok
       /\ GetService(UnmarshalSNAC(flap[c].data).family)

\* The FLAP is a channel-2 SNAC of a family without a registered service.
Unserved(f) ==
    /\ f.channel = 2
    /\ UnmarshalSNAC(f.data).ok
    /\ ~GetService(UnmarshalSNAC(f.data).family)

\* C13: a channel-2 FLAP whose family has no registered service is ignored.
\* Neither step handleFn takes for it (the entry with the FLAP, the branch
\* taken on it) invokes a service (no status change, no presence event),
\* sends anything, disconnects the session, runs the close handler or
\* changes the connection's user.
C13_UnservedFamilyIgnored ==
    [][\A c \in Conns :
          (\/ (pc[c] = "read" /\ pc'[c] = "hf_chan" /\ Unserved(flap'[c]))
           \/ (pc[c] = "hf_chan" /\ Unserved(flap[c]) /\ pc'[c] # pc[c] /\ running'))
          => /\ sent'[c] = sent[c]
             /\ disconnected'[c] = disconnected[c]
             /\ closeCalls'[c] = closeCalls[c]
             /\ ctx'[c] = ctx[c]
             /\ pc'[c] \notin ClosePhases
             /\ UNCHANGED <<status, onlineCh, commCh>>]_vars

\* An authenticated connection has had such a FLAP ignored.
C13_Witness ==
    \E c \in Conns : Event(c, "noSvc") /\ ctx[c] # NoUser /\ ~disconnected[c]

\* C14: processing a channel-5 FLAP changes nothing observable. Neither step
\* handleFn takes for it (the entry with the FLAP, the keepalive branch)
\* sends a FLAP, disconnects a session, changes the connection's user or
\* changes the session registry.
C14_KeepaliveChangesNothing ==
    [][\A c \in Conns :
          (\/ (pc[c] = "read" /\ pc'[c] = "hf_chan" /\ flap'[c].channel = 5)
           \/ lastEvent' = [conn |-> c, kind |-> "keepalive"])
          => /\ sent' = sent
             /\ disconnected' = disconnected
             /\ ctx'[c] = ctx[c]
             /\ sessionManager' = sessionManager]_vars

\* handleFn is about to hand the SNAC of the FLAP to its service, and the
\* family is not the authentication family.
Dispatching(c) ==
    /\ pc[c] = "hf_chan"
    /\ flap[c].channel = 2
    /\ UnmarshalSNAC(flap[c].data).ok
    /\ GetService(UnmarshalSNAC(flap[c].data).family)
    /\ UnmarshalSNAC(flap[c].data).family # FamAuth

\* C15: a channel-2 SNAC of a family other than 0x17 is handed to its
\* service only on a connection whose context carries an authenticated user.
C15_DispatchOnlyWhenAuthenticated ==
    \A c \in Conns : Dispatching(c) => ctx[c] # NoUser

\* C17: the close handling of one connection never removes the registry
\* entry of a different session that is still live.
C17_CloseKeepsOtherEntries ==
    [][\A c \in Conns :
          (pc[c] \in ClosePhases /\ pc'[c] # pc[c] /\ running')
          => \A e \in sessionManager :
                (e.sess # c /\ ~disconnected[e.sess]) => e \in sessionManager']_vars

\* C18: as soon as handleFn has processed a channel-1 FLAP with a valid
\* cookie, the registry maps the user's screen name to the session.
C18_RegisteredOnAuthentication ==
    \A c \in Conns :
       (Event(c, "authOk") /\ ~disconnected[c])
          => [name |-> ctx[c], sess |-> c] \in sessionManager

\* C19: once a connection carries an authenticated user, that user never
\* changes while the process runs.
C19_UserNeverChanges ==
    [][\A c \in Conns : (ctx[c] # NoUser /\ running') => ctx'[c] = ctx[c]]_vars

\* C20: no task sends on a queue after shutdown has closed it: no connection
\* task stands at the close handler's send on the presence queue with the
\* queue closed.
C20_NoSendOnClosedQueue ==
    \A c \in Conns : (running /\ pc[c] = "cl_push") => ~onlineCh.closed

====
